---- MODULE Spec2Model ----
(***************************************************************************)
(* A model of the dense Merkle Patricia trie of core/trie/trie.go.         *)
(*                                                                         *)
(* A bit set is a record [len, val]: len is the number of bits and val the *)
(* number they spell, bit 0 being the least significant one, as in the     *)
(* bitset library the code uses.  A nil *bitset.BitSet is NilKey.          *)
(*                                                                         *)
(* A felt is a sequence of integers that spells a term: <<0, v>> is the    *)
(* literal v, <<1>> \o a \o b is the Pedersen hash of a and b and          *)
(* <<2, n>> \o a is a + n.  The encoding is a prefix code, so two felts    *)
(* are equal exactly when the terms are: the hash is opaque and injective. *)
(***************************************************************************)
EXTENDS Integers, Sequences, FiniteSets, TLC

\* Trie.height, the number of bits of a key: the height of the trie in the
\* scenarios of the specification
Height == 3
\* the largest value a caller writes
MaxVal == 2
\* the largest number of keys that hold a non-zero value at a time
MaxLeaves == 4
\* the same, in the behaviours that record each call
MaxTracedLeaves == 3
\* the same, in the behaviours in which storage calls fail
MaxFaultyLeaves == 2
\* the same, in the behaviours in which the caller goes on after a Put that
\* returned an error
MaxResumedLeaves == 2
\* the largest number of bits of a key given to FindCommonKey and Path
MaxKeyLen == 4

Pow2(n) == 2 ^ n

-----------------------------------------------------------------------------
(* bitset.BitSet *)

NilKey == [len |-> -1, val |-> 0]

BitSet(l, v) == [len |-> l, val |-> v]

\* Test is false for an index at or beyond the length; an unsigned index that
\* wrapped below zero is beyond every length
Test(b, i) == i >= 0 /\ i < b.len /\ (b.val \div Pow2(i)) % 2 = 1

\* DeleteAt removes bit i; the bits above it move down by one
DeleteAt(b, i) ==
    [len |-> b.len - 1,
     val |-> (b.val \div Pow2(i + 1)) * Pow2(i) + (b.val % Pow2(i))]

\* Shrink keeps the bits 0..lastbitindex
Shrink(b, lastbitindex) ==
    IF lastbitindex + 1 > b.len THEN b
    ELSE [len |-> lastbitindex + 1, val |-> b.val % Pow2(lastbitindex + 1)]

-----------------------------------------------------------------------------
(* felt.Felt and the hashes *)

Felt(v) == <<0, v>>

Zero == Felt(0)

IsZero(f) == f = Zero

Pedersen(a, b) == <<1>> \o a \o b

FeltAdd(a, n) == <<2, n>> \o a

\* Node.Hash: the node's value for an empty path, else H(value, path) + len
Hash(node, path) ==
    IF path.len = 0 THEN node.value
    ELSE FeltAdd(Pedersen(node.value, Felt(path.val)), path.len)

-----------------------------------------------------------------------------
(* key arithmetic *)

FeltKeys == 0 .. (Pow2(Height) - 1)

FeltToBitSet(k) == BitSet(Height, k % Pow2(Height))

RECURSIVE DivergentBit(_, _, _)
DivergentBit(longerKey, shorterKey, divergentBit) ==
    IF divergentBit <= shorterKey.len
       /\ (Test(longerKey, longerKey.len - divergentBit)
            = Test(shorterKey, shorterKey.len - divergentBit))
    THEN DivergentBit(longerKey, shorterKey, divergentBit + 1)
    ELSE divergentBit

RECURSIVE DeleteLowBits(_, _)
DeleteLowBits(b, n) == IF n <= 0 THEN b ELSE DeleteLowBits(DeleteAt(b, 0), n - 1)

\* FindCommonKey that deletes one bit less
FindCommonKeyOneLess(longerKey, shorterKey) ==
    LET divergentBit == DivergentBit(longerKey, shorterKey, 0)
    IN  [key |-> DeleteLowBits(shorterKey, shorterKey.len - divergentBit),
         subset |-> divergentBit = shorterKey.len + 1]

FindCommonKey(longerKey, shorterKey) ==
    LET divergentBit == DivergentBit(longerKey, shorterKey, 0)
    IN  [key |-> DeleteLowBits(shorterKey, shorterKey.len - divergentBit + 1),
         subset |-> divergentBit = shorterKey.len + 1]

\* Path that shrinks to one bit more
PathShrinksLess(key, parentKey) ==
    IF parentKey /= NilKey
    THEN LET path == Shrink(key, key.len - parentKey.len)
         IN  DeleteAt(path, path.len - 1)
    ELSE key

\* Path that drops the last bit instead of the branching bit
PathDropsLast(key, parentKey) ==
    IF parentKey /= NilKey
    THEN LET path == Shrink(key, key.len - parentKey.len - 1)
         IN  DeleteAt(path, 0)
    ELSE key

\* Path without the drop of the branching bit
PathKeepsBranchBit(key, parentKey) ==
    IF parentKey /= NilKey
    THEN Shrink(key, key.len - parentKey.len - 1)
    ELSE key

Path(key, parentKey) ==
    IF parentKey /= NilKey
    THEN LET path == Shrink(key, key.len - parentKey.len - 1)
         IN  DeleteAt(path, path.len - 1)
    ELSE key

-----------------------------------------------------------------------------
(* Storage.  A call runs in a context c: the store, the engine's rootKey,    *)
(* the number n of storage calls made so far, the error the call is to       *)
(* return and the log of the storage calls and rootKey assignments.  The     *)
(* failAt-th storage call of a Put fails with an I/O error (0: none does).   *)

NoErr == "nil"
ErrNotFound == "NotFound"
ErrStoreIO == "StoreIO"
ErrPanic == "panic"

Node(value, left, right) == [value |-> value, left |-> left, right |-> right]

storageNode(key, node) == [key |-> key, node |-> node]

Event(op, key) == [op |-> op, key |-> key]

Context(st, rk) == [store |-> st, rootKey |-> rk, n |-> 0, err |-> NoErr, log |-> <<>>]

Called(c, op, key) == [c EXCEPT !.n = c.n + 1, !.log = Append(c.log, Event(op, key))]

StorageGet(c, key, failAt) ==
    LET c1 == Called(c, "get", key)
    IN  IF c1.n = failAt THEN [c1 EXCEPT !.err = ErrStoreIO]
        ELSE IF key \notin DOMAIN c.store THEN [c1 EXCEPT !.err = ErrNotFound]
        ELSE c1

StoragePut(c, key, node, failAt) ==
    LET c1 == Called(c, "put", key)
    IN  IF c1.n = failAt THEN [c1 EXCEPT !.err = ErrStoreIO]
        ELSE [c1 EXCEPT !.store = [k \in (DOMAIN c.store) \cup {key} |->
                                      IF k = key THEN node ELSE c.store[k]]]

StorageDelete(c, key, failAt) ==
    LET c1 == Called(c, "delete", key)
    IN  IF c1.n = failAt THEN [c1 EXCEPT !.err = ErrStoreIO]
        ELSE [c1 EXCEPT !.store = [k \in (DOMAIN c.store) \ {key} |-> c.store[k]]]

SetRootKey(c, key) == [c EXCEPT !.rootKey = key, !.log = Append(c.log, Event("rootKey", key))]

-----------------------------------------------------------------------------
(* Trie *)

\* nodesFromRootLoop that ends the walk with the nodes gathered so far when
\* storage reports NotFound
RECURSIVE nodesFromRootTolerant(_, _, _, _, _)
nodesFromRootTolerant(c, cur, key, nodes, failAt) ==
    IF cur = NilKey THEN [c |-> c, nodes |-> nodes]
    ELSE LET c1 == StorageGet(c, cur, failAt)
         IN  IF c1.err = ErrNotFound /\ nodes /= <<>>
             THEN [c |-> [c1 EXCEPT !.err = NoErr], nodes |-> nodes]
             ELSE IF c1.err /= NoErr THEN [c |-> c1, nodes |-> <<>>]
             ELSE LET node == c1.store[cur]
                      nodes1 == Append(nodes, storageNode(cur, node))
                      subset == FindCommonKey(key, cur).subset
                  IN  IF cur.len >= key.len \/ ~subset
                      THEN [c |-> c1, nodes |-> nodes1]
                      ELSE IF Test(key, key.len - cur.len - 1)
                           THEN nodesFromRootTolerant(c1, node.right, key, nodes1, failAt)
                           ELSE nodesFromRootTolerant(c1, node.left, key, nodes1, failAt)

\* the loop of nodesFromRoot, entered with cur and the nodes gathered so far
RECURSIVE nodesFromRootLoop(_, _, _, _, _)
nodesFromRootLoop(c, cur, key, nodes, failAt) ==
    IF cur = NilKey THEN [c |-> c, nodes |-> nodes]
    ELSE LET c1 == StorageGet(c, cur, failAt)
         IN  IF c1.err /= NoErr THEN [c |-> c1, nodes |-> <<>>]
             ELSE LET node == c1.store[cur]
                      nodes1 == Append(nodes, storageNode(cur, node))
                      subset == FindCommonKey(key, cur).subset
                  IN  IF cur.len >= key.len \/ ~subset
                      THEN [c |-> c1, nodes |-> nodes1]
                      ELSE IF Test(key, key.len - cur.len - 1)
                           THEN nodesFromRootLoop(c1, node.right, key, nodes1, failAt)
                           ELSE nodesFromRootLoop(c1, node.left, key, nodes1, failAt)

nodesFromRoot(c, key, failAt) == nodesFromRootLoop(c, c.rootKey, key, <<>>, failAt)

\* the loop of propagateValues, entered at index idx (1-based) of affectedNodes
RECURSIVE propagateValuesLoop(_, _, _, _)
propagateValuesLoop(c, affectedNodes, idx, failAt) ==
    IF idx = 0 THEN c
    ELSE LET cur == affectedNodes[idx]
         IN  IF (cur.node.left = NilKey) /= (cur.node.right = NilKey)
             THEN [c EXCEPT !.err = ErrPanic]
             ELSE IF cur.node.left /= NilKey \/ cur.node.right /= NilKey
             THEN LET c1 == StorageGet(c, cur.node.left, failAt)
                  IN  IF c1.err /= NoErr THEN c1
                      ELSE LET c2 == StorageGet(c1, cur.node.right, failAt)
                           IN  IF c2.err /= NoErr THEN c2
                               ELSE LET left == c2.store[cur.node.left]
                                        right == c2.store[cur.node.right]
                                        leftPath == Path(cur.node.left, cur.key)
                                        rightPath == Path(cur.node.right, cur.key)
                                        value == Pedersen(Hash(left, leftPath),
                                                          Hash(right, rightPath))
                                        c3 == StoragePut(c2, cur.key,
                                                  [cur.node EXCEPT !.value = value], failAt)
                                    IN  IF c3.err /= NoErr THEN c3
                                        ELSE propagateValuesLoop(c3, affectedNodes,
                                                                 idx - 1, failAt)
             ELSE LET c1 == StoragePut(c, cur.key, cur.node, failAt)
                  IN  IF c1.err /= NoErr THEN c1
                      ELSE propagateValuesLoop(c1, affectedNodes, idx - 1, failAt)

propagateValues(c, affectedNodes, failAt) ==
    propagateValuesLoop(c, affectedNodes, Len(affectedNodes), failAt)

\* SiblingKey with the comparison inverted
SiblingKeyInverted(parent, last) ==
    IF parent.node.left /= last.key THEN parent.node.right ELSE parent.node.left

\* deleteLast's choice of the child of parent that is not the deleted node
SiblingKey(parent, last) ==
    IF parent.node.left = last.key THEN parent.node.right ELSE parent.node.left

\* deleteLast without the collapse of the parent
deleteLastKeepsParent(c, affectedNodes, failAt) ==
    LET len == Len(affectedNodes)
        c1 == StorageDelete(c, affectedNodes[len].key, failAt)
    IN  IF c1.err /= NoErr THEN c1
        ELSE IF len = 1 THEN SetRootKey(c1, NilKey)
        ELSE c1

\* deleteLast that propagates from a new node in the place of the sibling
\* it read
deleteLastNewSibling(c, affectedNodes, failAt) ==
    LET len == Len(affectedNodes)
        last == affectedNodes[len]
        c1 == StorageDelete(c, last.key, failAt)
    IN  IF c1.err /= NoErr THEN c1
        ELSE IF len = 1 THEN SetRootKey(c1, NilKey)
        ELSE LET parent == affectedNodes[len - 1]
                 c2 == StorageDelete(c1, parent.key, failAt)
                 siblingKey == SiblingKey(parent, last)
             IN  IF c2.err /= NoErr THEN c2
                 ELSE IF len = 2 THEN SetRootKey(c2, siblingKey)
                 ELSE LET grandParent == affectedNodes[len - 2]
                          grandNode == IF grandParent.node.left = parent.key
                                       THEN [grandParent.node EXCEPT !.left = siblingKey]
                                       ELSE [grandParent.node EXCEPT !.right = siblingKey]
                          c3 == StorageGet(c2, siblingKey, failAt)
                      IN  IF c3.err /= NoErr THEN c3
                          ELSE propagateValues(c3,
                                   Append(SubSeq(affectedNodes, 1, len - 3),
                                          storageNode(grandParent.key, grandNode))
                                   \o <<storageNode(siblingKey, Node(Zero, NilKey, NilKey))>>,
                                   failAt)

\* deleteLast that leaves rootKey as it was when the parent was the root
deleteLastKeepsRoot(c, affectedNodes, failAt) ==
    LET len == Len(affectedNodes)
        last == affectedNodes[len]
        c1 == StorageDelete(c, last.key, failAt)
    IN  IF c1.err /= NoErr THEN c1
        ELSE IF len = 1 THEN SetRootKey(c1, NilKey)
        ELSE LET parent == affectedNodes[len - 1]
                 c2 == StorageDelete(c1, parent.key, failAt)
                 siblingKey == SiblingKey(parent, last)
             IN  IF c2.err /= NoErr THEN c2
                 ELSE IF len = 2 THEN c2
                 ELSE LET grandParent == affectedNodes[len - 2]
                          grandNode == IF grandParent.node.left = parent.key
                                       THEN [grandParent.node EXCEPT !.left = siblingKey]
                                       ELSE [grandParent.node EXCEPT !.right = siblingKey]
                          c3 == StorageGet(c2, siblingKey, failAt)
                      IN  IF c3.err /= NoErr THEN c3
                          ELSE propagateValues(c3,
                                   Append(SubSeq(affectedNodes, 1, len - 3),
                                          storageNode(grandParent.key, grandNode))
                                   \o <<storageNode(siblingKey, c3.store[siblingKey])>>,
                                   failAt)

\* deleteLast that writes the grandparent without the propagation
deleteLastNoRehash(c, affectedNodes, failAt) ==
    LET len == Len(affectedNodes)
        last == affectedNodes[len]
        c1 == StorageDelete(c, last.key, failAt)
    IN  IF c1.err /= NoErr THEN c1
        ELSE IF len = 1 THEN SetRootKey(c1, NilKey)
        ELSE LET parent == affectedNodes[len - 1]
                 c2 == StorageDelete(c1, parent.key, failAt)
                 siblingKey == SiblingKey(parent, last)
             IN  IF c2.err /= NoErr THEN c2
                 ELSE IF len = 2 THEN SetRootKey(c2, siblingKey)
                 ELSE LET grandParent == affectedNodes[len - 2]
                          grandNode == IF grandParent.node.left = parent.key
                                       THEN [grandParent.node EXCEPT !.left = siblingKey]
                                       ELSE [grandParent.node EXCEPT !.right = siblingKey]
                      IN  StoragePut(c2, grandParent.key, grandNode, failAt)

\* deleteLast without the delete of the last node
deleteLastKeepsLeaf(c, affectedNodes, failAt) ==
    LET len == Len(affectedNodes)
        last == affectedNodes[len]
    IN  IF len = 1 THEN SetRootKey(c, NilKey)
        ELSE LET parent == affectedNodes[len - 1]
                 c2 == StorageDelete(c, parent.key, failAt)
                 siblingKey == SiblingKey(parent, last)
             IN  IF c2.err /= NoErr THEN c2
                 ELSE IF len = 2 THEN SetRootKey(c2, siblingKey)
                 ELSE LET grandParent == affectedNodes[len - 2]
                          grandNode == IF grandParent.node.left = parent.key
                                       THEN [grandParent.node EXCEPT !.left = siblingKey]
                                       ELSE [grandParent.node EXCEPT !.right = siblingKey]
                          c3 == StorageGet(c2, siblingKey, failAt)
                      IN  IF c3.err /= NoErr THEN c3
                          ELSE propagateValues(c3,
                                   Append(SubSeq(affectedNodes, 1, len - 3),
                                          storageNode(grandParent.key, grandNode))
                                   \o <<storageNode(siblingKey, c3.store[siblingKey])>>,
                                   failAt)

deleteLast(c, affectedNodes, failAt) ==
    LET len == Len(affectedNodes)
        last == affectedNodes[len]
        c1 == StorageDelete(c, last.key, failAt)
    IN  IF c1.err /= NoErr THEN c1
        ELSE IF len = 1 THEN SetRootKey(c1, NilKey)
        ELSE LET parent == affectedNodes[len - 1]
                 c2 == StorageDelete(c1, parent.key, failAt)
                 siblingKey == SiblingKey(parent, last)
             IN  IF c2.err /= NoErr THEN c2
                 ELSE IF len = 2 THEN SetRootKey(c2, siblingKey)
                 ELSE LET grandParent == affectedNodes[len - 2]
                          grandNode == IF grandParent.node.left = parent.key
                                       THEN [grandParent.node EXCEPT !.left = siblingKey]
                                       ELSE [grandParent.node EXCEPT !.right = siblingKey]
                          c3 == StorageGet(c2, siblingKey, failAt)
                      IN  IF c3.err /= NoErr THEN c3
                          ELSE propagateValues(c3,
                                   Append(SubSeq(affectedNodes, 1, len - 3),
                                          storageNode(grandParent.key, grandNode))
                                   \o <<storageNode(siblingKey, c3.store[siblingKey])>>,
                                   failAt)

\* NewParent with the test of the branching bit inverted
NewParentInverted(nodeKey, siblingKey, commonKey) ==
    IF ~Test(nodeKey, nodeKey.len - commonKey.len - 1)
    THEN Node(Zero, siblingKey, nodeKey)
    ELSE Node(Zero, nodeKey, siblingKey)

\* NewParent with the new leaf always on the right
NewParentLeafRight(nodeKey, siblingKey, commonKey) == Node(Zero, siblingKey, nodeKey)

\* the node Put makes at commonKey above the new leaf and its sibling
NewParent(nodeKey, siblingKey, commonKey) ==
    IF Test(nodeKey, nodeKey.len - commonKey.len - 1)
    THEN Node(Zero, siblingKey, nodeKey)
    ELSE Node(Zero, nodeKey, siblingKey)

\* InsertSpine that leaves the link of the parent of the sibling as it was
InsertSpineNoRetarget(nodes, nodeKey, node) ==
    LET len == Len(nodes)
        sibling == nodes[len]
        commonKey == FindCommonKey(nodeKey, sibling.key).key
        newParent == NewParent(nodeKey, sibling.key, commonKey)
    IN  SubSeq(nodes, 1, len - 1)
          \o <<storageNode(commonKey, newParent), storageNode(nodeKey, node)>>

\* the spine Put propagates when it inserts a new leaf
InsertSpine(nodes, nodeKey, node) ==
    LET len == Len(nodes)
        sibling == nodes[len]
        commonKey == FindCommonKey(nodeKey, sibling.key).key
        newParent == NewParent(nodeKey, sibling.key, commonKey)
        upper == IF len = 1 THEN <<>>
                 ELSE LET siblingParent == nodes[len - 1]
                          parentNode == IF siblingParent.node.left = sibling.key
                                        THEN [siblingParent.node EXCEPT !.left = commonKey]
                                        ELSE [siblingParent.node EXCEPT !.right = commonKey]
                      IN  Append(SubSeq(nodes, 1, len - 2),
                                 storageNode(siblingParent.key, parentNode))
    IN  upper \o <<storageNode(commonKey, newParent), storageNode(nodeKey, node)>>

\* PutInsert without the test for a zero value
PutInsertZero(c, nodes, nodeKey, node, failAt) ==
    LET commonKey == FindCommonKey(nodeKey, nodes[Len(nodes)].key).key
        c1 == propagateValues(c, InsertSpine(nodes, nodeKey, node), failAt)
    IN  IF c1.err /= NoErr THEN c1
        ELSE IF Len(nodes) = 1 THEN SetRootKey(c1, commonKey)
        ELSE c1

\* PutInsert with rootKey assigned whatever propagateValues returns
PutInsertEagerRoot(c, nodes, nodeKey, node, failAt) ==
    LET commonKey == FindCommonKey(nodeKey, nodes[Len(nodes)].key).key
        c1 == propagateValues(c, InsertSpine(nodes, nodeKey, node), failAt)
    IN  IF IsZero(node.value) THEN c
        ELSE IF Len(nodes) = 1 THEN SetRootKey(c1, commonKey)
        ELSE c1

\* Put when the key has no leaf: a zero is a no-op, another value is inserted
\* below a new parent
PutInsert(c, nodes, nodeKey, node, failAt) ==
    LET commonKey == FindCommonKey(nodeKey, nodes[Len(nodes)].key).key
        makeRoot == Len(nodes) = 1
        c1 == propagateValues(c, InsertSpine(nodes, nodeKey, node), failAt)
    IN  IF IsZero(node.value) THEN c
        ELSE IF c1.err /= NoErr THEN c1
        ELSE IF makeRoot THEN SetRootKey(c1, commonKey)
        ELSE c1

\* PutReplace that leaves the node read in the descent in place
PutReplaceKeepsOld(c, nodes, node, failAt) ==
    IF IsZero(node.value) THEN deleteLast(c, nodes, failAt)
    ELSE propagateValues(c, nodes, failAt)

\* PutReplace that writes a zero as it writes another value
PutReplaceNoDelete(c, nodes, node, failAt) ==
    propagateValues(c, [nodes EXCEPT ![Len(nodes)].node = node], failAt)

\* PutReplace with the test for a zero value inverted
PutReplaceInverted(c, nodes, node, failAt) ==
    LET nodes1 == [nodes EXCEPT ![Len(nodes)].node = node]
    IN  IF ~IsZero(node.value) THEN deleteLast(c, nodes1, failAt)
        ELSE propagateValues(c, nodes1, failAt)

\* Put when the key has a leaf, the last of nodes: a zero deletes it, another
\* value replaces its value
PutReplace(c, nodes, node, failAt) ==
    LET nodes1 == [nodes EXCEPT ![Len(nodes)].node = node]
    IN  IF IsZero(node.value) THEN deleteLast(c, nodes1, failAt)
        ELSE propagateValues(c, nodes1, failAt)

\* PutEmpty without the assignment of rootKey
PutEmptyNoRoot(c, nodeKey, node, failAt) ==
    IF IsZero(node.value) THEN c
    ELSE propagateValues(c, <<storageNode(nodeKey, node)>>, failAt)

\* Put on an empty trie: a zero is a no-op, another value becomes the root
PutEmpty(c, nodeKey, node, failAt) ==
    IF IsZero(node.value) THEN c
    ELSE LET c1 == propagateValues(c, <<storageNode(nodeKey, node)>>, failAt)
         IN  IF c1.err /= NoErr THEN c1 ELSE SetRootKey(c1, nodeKey)

\* Put that writes the new leaf before the descent
PutLeafFirst(c, key, value, failAt) ==
    LET nodeKey == FeltToBitSet(key)
        node == Node(value, NilKey, NilKey)
        c0 == IF IsZero(value) THEN c ELSE StoragePut(c, nodeKey, node, failAt)
    IN  IF c0.err /= NoErr THEN c0
        ELSE IF c0.rootKey = NilKey THEN PutEmpty(c0, nodeKey, node, failAt)
        ELSE LET r == nodesFromRoot(c0, nodeKey, failAt)
             IN  IF r.c.err /= NoErr THEN r.c
                 ELSE IF nodeKey = r.nodes[Len(r.nodes)].key
                 THEN PutReplace(r.c, r.nodes, node, failAt)
                 ELSE PutInsert(r.c, r.nodes, nodeKey, node, failAt)

\* Put(key, value), the failAt-th storage call failing
Put(c, key, value, failAt) ==
    LET nodeKey == FeltToBitSet(key)
        node == Node(value, NilKey, NilKey)
    IN  IF c.rootKey = NilKey THEN PutEmpty(c, nodeKey, node, failAt)
        ELSE LET r == nodesFromRoot(c, nodeKey, failAt)
             IN  IF r.c.err /= NoErr THEN r.c
                 ELSE IF nodeKey = r.nodes[Len(r.nodes)].key
                 THEN PutReplace(r.c, r.nodes, node, failAt)
                 ELSE PutInsert(r.c, r.nodes, nodeKey, node, failAt)

\* Get(key): the value and the error
Get(st, key) ==
    LET nodeKey == FeltToBitSet(key)
    IN  IF nodeKey \in DOMAIN st THEN [value |-> st[nodeKey].value, err |-> NoErr]
        ELSE [value |-> Zero, err |-> ErrNotFound]

\* Root(): the commitment and the error
Root(st, rk) ==
    IF rk = NilKey THEN [value |-> Zero, err |-> NoErr]
    ELSE IF rk \notin DOMAIN st THEN [value |-> Zero, err |-> ErrNotFound]
    ELSE [value |-> Hash(st[rk], Path(rk, NilKey)), err |-> NoErr]

-----------------------------------------------------------------------------------------------------------------------------------------------------
(* The state: the store and rootKey of one trie made by RunOnTempTrie, and   *)
(* two history variables.  written[k] is the value last written to k by a    *)
(* successful Put (0: none, or a zero).  call is the Put call that led to    *)
(* the state, with the store and rootKey it was entered with, in the         *)
(* behaviours that record the calls.  pure is the call of FindCommonKey or   *)
(* Path and its result, in the behaviours that call these functions on keys  *)
(* of up to MaxKeyLen bits.                                                  *)

VARIABLES store, rootKey, written, call, pure

vars == <<store, rootKey, written, call, pure>>

Values == 0 .. MaxVal

EmptyStore == [k \in {} |-> Node(Zero, NilKey, NilKey)]

NoCall == [key |-> -1, value |-> -1, failAt |-> 0, err |-> NoErr,
           entryRootKey |-> NilKey, entryStore |-> EmptyStore, log |-> <<>>]

\* no call of FindCommonKey or Path
NoPure == [op |-> "none", key |-> NilKey, other |-> NilKey,
           result |-> [key |-> NilKey, subset |-> FALSE]]

Live(w) == {k \in FeltKeys : w[k] /= 0}

\* Put(k, v) may be called: it leaves at most max keys with a non-zero value
Fits(k, v, max) == (v /= 0 /\ written[k] = 0) => Cardinality(Live(written)) < max

\* NewTrie(storage, height, nil) on an empty transaction
Init ==
    /\ store = EmptyStore
    /\ rootKey = NilKey
    /\ written = [k \in FeltKeys |-> 0]
    /\ call = NoCall
    /\ pure = NoPure

\* a Put that succeeds
DoPut(k, v) ==
    /\ Fits(k, v, MaxLeaves)
    /\ \E c \in {Put(Context(store, rootKey), k, Felt(v), 0)} :
           /\ c.err = NoErr
           /\ store' = c.store
           /\ rootKey' = c.rootKey
    /\ written' = [written EXCEPT ![k] = v]
    /\ UNCHANGED <<call, pure>>

\* a Put whose failAt-th storage call fails (0: none), the call recorded
Call(k, v, failAt, max) ==
    /\ call = NoCall
    /\ Fits(k, v, max)
    /\ \E c \in {Put(Context(store, rootKey), k, Felt(v), failAt)} :
           /\ store' = c.store
           /\ rootKey' = c.rootKey
           /\ call' = [key |-> k, value |-> v, failAt |-> failAt, err |-> c.err,
                       entryRootKey |-> rootKey, entryStore |-> store, log |-> c.log]
           /\ written' = IF c.err = NoErr THEN [written EXCEPT ![k] = v] ELSE written
    /\ UNCHANGED pure

\* a Put that succeeds, recorded
DoPutTraced(k, v) == Call(k, v, 0, MaxTracedLeaves)

\* a Put in which a storage call may fail, recorded
DoPutFaulty(k, v, failAt) == Call(k, v, failAt, MaxFaultyLeaves)

\* a Put in which a storage call may fail, on a trie that its caller goes
\* on using after an error, recorded
DoPutResumed(k, v, failAt) == Call(k, v, failAt, MaxResumedLeaves)

\* the number of storage calls Put(k, v) makes when none fails
Calls(k, v) == Put(Context(store, rootKey), k, Felt(v), 0).n

\* the caller goes on after a Put that returned nil
Return ==
    /\ call /= NoCall
    /\ call.err = NoErr
    /\ call' = NoCall
    /\ UNCHANGED <<store, rootKey, written, pure>>

\* RunOnTempTrie returns the error of a failed Put; the transaction and
\* the trie are discarded
Discard ==
    /\ call.err /= NoErr
    /\ store' = EmptyStore
    /\ rootKey' = NilKey
    /\ written' = [k \in FeltKeys |-> 0]
    /\ call' = NoCall
    /\ UNCHANGED pure

\* any Puts
Next == \E k \in FeltKeys, v \in Values : DoPut(k, v)

Spec == Init /\ [][Next]_vars

\* Puts of non-zero values
NextNonZero == \E k \in FeltKeys, v \in Values \ {0} : DoPut(k, v)

SpecNonZero == Init /\ [][NextNonZero]_vars

\* Puts of non-zero values to keys that hold none
NextInserts == \E k \in FeltKeys \ Live(written), v \in Values \ {0} : DoPut(k, v)

SpecInserts == Init /\ [][NextInserts]_vars

\* any Puts, each recorded
NextTraced ==
    \/ \E k \in FeltKeys, v \in Values : DoPutTraced(k, v)
    \/ Return

SpecTraced == Init /\ [][NextTraced]_vars

\* any Puts, each recorded, in which any one storage call may fail
NextFaulty ==
    \/ /\ call = NoCall
       /\ \E k \in FeltKeys, v \in Values : \E failAt \in 0 .. Calls(k, v) :
             DoPutFaulty(k, v, failAt)
    \/ Return
    \/ Discard

SpecFaulty == Init /\ [][NextFaulty]_vars

\* the bit sets of MaxKeyLen bits at most
Keys == {b \in [len : 0 .. MaxKeyLen, val : 0 .. (Pow2(MaxKeyLen) - 1)] :
            b.val < Pow2(b.len)}

\* a key and another key, or nil for the other, before a call of
\* FindCommonKey or Path
InitKeys ==
    /\ store = EmptyStore
    /\ rootKey = NilKey
    /\ written = [k \in FeltKeys |-> 0]
    /\ call = NoCall
    /\ pure \in {[op |-> "input", key |-> k, other |-> o,
                   result |-> [key |-> NilKey, subset |-> FALSE]] :
                     k \in Keys, o \in Keys \cup {NilKey}}

\* FindCommonKey(key, other), other being no longer than key
DoFindCommonKey ==
    /\ pure.op = "input"
    /\ pure.other /= NilKey
    /\ pure.other.len <= pure.key.len
    /\ pure' = [pure EXCEPT !.op = "FindCommonKey",
                            !.result = FindCommonKey(pure.key, pure.other)]
    /\ UNCHANGED <<store, rootKey, written, call>>

\* Path(key, other), other being nil or shorter than key
DoPath ==
    /\ pure.op = "input"
    /\ pure.other = NilKey \/ pure.other.len < pure.key.len
    /\ pure' = [pure EXCEPT !.op = "Path",
                            !.result = [key |-> Path(pure.key, pure.other),
                                        subset |-> FALSE]]
    /\ UNCHANGED <<store, rootKey, written, call>>

NextKeys == DoFindCommonKey \/ DoPath

SpecKeys == InitKeys /\ [][NextKeys]_vars

-----------------------------------------------------------------------------
(* What the properties speak of *)

\* Get(k) returned the value v
Got(k, v) == Get(store, k) = [value |-> Felt(v), err |-> NoErr]

\* the keys reached from the keys S by at most n child links
RECURSIVE ReachN(_, _, _)
ReachN(st, S, n) ==
    IF n = 0 THEN S
    ELSE ReachN(st,
                S \cup {st[k].left : k \in {x \in S \cap DOMAIN st : st[x].left /= NilKey}}
                  \cup {st[k].right : k \in {x \in S \cap DOMAIN st : st[x].right /= NilKey}},
                n - 1)

\* the keys reached from rootKey
Reachable(st, rk) == IF rk = NilKey THEN {} ELSE ReachN(st, {rk}, Height + 1)

\* the keys, as paths of Height bits, below the prefix p among the keys of w
Under(p, w) == {k \in Live(w) : (k % Pow2(Height)) \div Pow2(Height - p.len) = p.val}

\* the length of the longest prefix the keys of S share
CommonLen(S) ==
    CHOOSE l \in 0 .. Height :
        /\ \A a, b \in S : a \div Pow2(Height - l) = b \div Pow2(Height - l)
        /\ \A m \in (l + 1) .. Height :
              \E a, b \in S : a \div Pow2(Height - m) /= b \div Pow2(Height - m)

\* the hash, in the sparse trie of height Height that holds w, of the node
\* below the prefix p: zero for an empty subtree, H(left, right) for a
\* binary node, and H(bottom, path) + length for an edge of length levels
RECURSIVE SparseHash(_, _)
SparseHash(p, w) ==
    LET S == Under(p, w)
    IN  IF S = {} THEN Zero
        ELSE LET l == CommonLen(S)
                 a == CHOOSE k \in S : TRUE
                 b == a \div Pow2(Height - l)
                 bottom == IF l = Height THEN Felt(w[a])
                           ELSE Pedersen(SparseHash(BitSet(l + 1, 2 * b), w),
                                         SparseHash(BitSet(l + 1, 2 * b + 1), w))
             IN  IF l = p.len THEN bottom
                 ELSE FeltAdd(Pedersen(bottom, Felt(b % Pow2(l - p.len))), l - p.len)

SparseRoot(w) == SparseHash(BitSet(0, 0), w)

\* the trie built from an empty one by the Puts of the keys k.. of w, in
\* ascending order
RECURSIVE BuildAscending(_, _, _)
BuildAscending(c, k, w) ==
    IF k >= Pow2(Height) THEN c
    ELSE IF w[k] = 0 THEN BuildAscending(c, k + 1, w)
    ELSE BuildAscending(Put(Context(c.store, c.rootKey), k, Felt(w[k]), 0), k + 1, w)

Ascending(w) == BuildAscending(Context(EmptyStore, NilKey), 0, w)

\* no Put has yet failed after it had written: the trie is the one that
\* the Puts of the pairs of written build
Intact ==
    /\ store = Ascending(written).store
    /\ rootKey = Ascending(written).rootKey

\* the values written in these behaviours: zero, which deletes, and one
\* other value; the descent looks at the keys of the nodes, not at values
ResumedValues == {0, 1}

\* the caller goes on with the trie after a Put that returned an error
Resume ==
    /\ call.err /= NoErr
    /\ call' = NoCall
    /\ UNCHANGED <<store, rootKey, written, pure>>

\* any Puts, each recorded, on a trie that its caller goes on using after an
\* error; a storage call may fail in a Put on a trie that is intact
NextResumed ==
    \/ /\ call = NoCall
       /\ \E k \in FeltKeys, v \in ResumedValues :
             \E failAt \in 0 .. (IF Intact THEN Calls(k, v) ELSE 0) :
                DoPutResumed(k, v, failAt)
    \/ Return
    \/ Resume

SpecResumed == Init /\ [][NextResumed]_vars

\* the storage calls of kind op in a log
Ops(log, ops) == {i \in 1 .. Len(log) : log[i].op \in ops}

\* the nodes nodesFromRoot gathers for the key k in the store st, none failing
Descent(st, rk, k) ==
    IF rk = NilKey THEN <<>>
    ELSE nodesFromRoot(Context(st, rk), FeltToBitSet(k), 0).nodes

\* the descent of the Put recorded in call
EntryDescent == Descent(call.entryStore, call.entryRootKey, call.key)

\* the descent from rk for the key k ends at the node of the path of k
DescentReaches(st, rk, k) ==
    LET nodes == Descent(st, rk, k)
    IN  nodes /= <<>> /\ nodes[Len(nodes)].key = FeltToBitSet(k)

\* the path p is a prefix of the path k, which is longer
ProperPrefix(p, k) == p.len < k.len /\ k.val \div Pow2(k.len - p.len) = p.val

\* the bit of the path k at position pos, position 0 being the first bit
\* (the most significant one)
BitAt(k, pos) == (k.val \div Pow2(k.len - pos - 1)) % 2

\* the commitment of the node at key from its children as the store has them
Commitment(st, key) ==
    Pedersen(Hash(st[st[key].left], Path(st[key].left, key)),
             Hash(st[st[key].right], Path(st[key].right, key)))

\* the keys the Put recorded in call wrote to or deleted
Touched == {call.log[i].key : i \in Ops(call.log, {"put", "delete"})}

\* the longest path that is a prefix of the paths a and b
LongestCommonPrefix(a, b) ==
    LET min == IF a.len < b.len THEN a.len ELSE b.len
        l == CHOOSE n \in 0 .. min :
                 /\ a.val \div Pow2(a.len - n) = b.val \div Pow2(b.len - n)
                 /\ \A m \in (n + 1) .. min :
                       a.val \div Pow2(a.len - m) /= b.val \div Pow2(b.len - m)
    IN  BitSet(l, a.val \div Pow2(a.len - l))

\* the Put recorded in call returned nil after it had put a non-zero value
\* to a key that had no leaf in a trie that was not empty
Inserted ==
    /\ call /= NoCall
    /\ call.err = NoErr
    /\ call.value /= 0
    /\ call.entryRootKey /= NilKey
    /\ FeltToBitSet(call.key) \notin DOMAIN call.entryStore

\* the gets of the Put recorded in call that storage answered with NotFound
\* before the Put made a put or a delete: gets of the descent
DescentMisses ==
    {i \in Ops(call.log, {"get"}) :
        /\ i /= call.failAt
        /\ call.log[i].key \notin DOMAIN call.entryStore
        /\ \A j \in 1 .. i : call.log[j].op = "get"}

\* the keys at which the Put recorded in call may change the store: the keys
\* of its descent, and for a Put of a non-zero value the key of the leaf
\* and, when it is new in a trie that is not empty, the key of its new parent
Spine ==
    UNION {{nodes[i].key : i \in 1 .. Len(nodes)}
             \cup (IF call.value /= 0 THEN {FeltToBitSet(call.key)} ELSE {})
             \cup (IF Inserted
                   THEN {LongestCommonPrefix(FeltToBitSet(call.key),
                                             nodes[Len(nodes)].key)}
                   ELSE {}) : nodes \in {EntryDescent}}

\* the child keys of the node stored at key
Children(st, key) == {st[key].left, st[key].right} \ {NilKey}

-----------------------------------------------------------------------------
(* Properties *)

\* the Put recorded in call returned nil after it had deleted a leaf
Deleted ==
    /\ call /= NoCall
    /\ call.err = NoErr
    /\ call.value = 0
    /\ FeltToBitSet(call.key) \in DOMAIN call.entryStore

\* C1: after Puts of non-zero values, Get of every key written returns the
\* value last written to it, without an error
RoundTrip == \A k \in FeltKeys : written[k] /= 0 => Got(k, written[k])

\* C1 witness: three keys hold values, not all the same, and read them back
RoundTripWitness ==
    /\ Cardinality(Live(written)) >= 3
    /\ \E j, k \in Live(written) : written[j] /= written[k]
    /\ \A k \in Live(written) : Got(k, written[k])

\* C2: Get of a key whose last write is a zero reports NotFound, and Get of
\* every key whose last write is not a zero returns that value
ZeroWriteDeletes ==
    \A k \in FeltKeys :
        IF written[k] = 0 THEN Get(store, k).err = ErrNotFound
        ELSE Got(k, written[k])

\* C2 witness: a zero has just deleted the leaf of a key, of which Get now
\* reports NotFound, and two other keys still read back their values
ZeroWriteDeletesWitness ==
    /\ Deleted
    /\ Get(store, call.key).err = ErrNotFound
    /\ Cardinality(Live(written)) >= 2
    /\ \A k \in Live(written) : Got(k, written[k])

\* C3: the root after the insertion of pairs of distinct keys and non-zero
\* values, in whatever order, is the root after their insertion in ascending
\* order of the keys
PermutationInvariance ==
    Root(store, rootKey) = Root(Ascending(written).store, Ascending(written).rootKey)

\* C3 witness: three keys or more were inserted
PermutationInvarianceWitness ==
    /\ Cardinality(Live(written)) >= 3
    /\ Root(store, rootKey).err = NoErr
    /\ Root(store, rootKey).value /= Zero

\* C4: Root() is the root of the sparse trie that holds the current pairs
SparseEquivalence ==
    Root(store, rootKey) = [value |-> SparseRoot(written), err |-> NoErr]

\* C4 witness: a trie of three leaves or more whose root node is below the
\* top, so that an edge leads to it, and has an internal node for a child
SparseEquivalenceWitness ==
    /\ Cardinality(Live(written)) >= 3
    /\ rootKey.len > 0
    /\ rootKey \in DOMAIN store
    /\ \E k \in {store[rootKey].left, store[rootKey].right} :
          k \in DOMAIN store /\ store[k].left /= NilKey
    /\ Root(store, rootKey).value = SparseRoot(written)

\* C5: every node reached from rootKey is in the store and has either no
\* child key or two child keys, of two nodes of the store
UnaryFree ==
    \A k \in Reachable(store, rootKey) :
        /\ k \in DOMAIN store
        /\ \/ store[k].left = NilKey /\ store[k].right = NilKey
           \/ /\ store[k].left /= NilKey /\ store[k].right /= NilKey
              /\ store[k].left /= store[k].right
              /\ store[k].left \in DOMAIN store
              /\ store[k].right \in DOMAIN store

\* C5 witness: three leaves below two internal nodes, the root and a child
\* of the root
UnaryFreeWitness ==
    /\ Cardinality(Live(written)) = 3
    /\ Cardinality(Reachable(store, rootKey)) = 5
    /\ store[rootKey].left /= NilKey
    /\ \E k \in {store[rootKey].left, store[rootKey].right} :
          k \in DOMAIN store /\ store[k].left /= NilKey

\* C6: rootKey is nil exactly when no key holds a non-zero value, and then
\* Root() is zero
EmptyIffNoRoot ==
    /\ (rootKey = NilKey) <=> (Live(written) = {})
    /\ rootKey = NilKey => Root(store, rootKey) = [value |-> Zero, err |-> NoErr]

\* C6 witness: a Put of zero has just deleted the only leaf
EmptyIffNoRootWitness ==
    /\ Deleted
    /\ call.entryRootKey = FeltToBitSet(call.key)
    /\ Live(written) = {}
    /\ rootKey = NilKey
    /\ Root(store, rootKey).value = Zero

\* C7: a Put of zero to a key that has no leaf makes no put and no delete
\* and leaves the store, rootKey and Root() as they were
ZeroAbsentNoOp ==
    (/\ call /= NoCall
     /\ call.value = 0
     /\ FeltToBitSet(call.key) \notin DOMAIN call.entryStore)
    => /\ call.err = NoErr
       /\ Ops(call.log, {"put", "delete", "rootKey"}) = {}
       /\ store = call.entryStore
       /\ rootKey = call.entryRootKey
       /\ Root(store, rootKey) = Root(call.entryStore, call.entryRootKey)
       /\ call.entryRootKey = NilKey =>
             /\ call.log = <<>>
             /\ Root(store, rootKey) = [value |-> Zero, err |-> NoErr]

\* C7 witness: a zero was put to an absent key of a trie of two leaves or
\* more, and the descent read the store
ZeroAbsentNoOpWitness ==
    /\ call /= NoCall
    /\ call.value = 0
    /\ call.err = NoErr
    /\ FeltToBitSet(call.key) \notin DOMAIN call.entryStore
    /\ Cardinality(DOMAIN call.entryStore) >= 3
    /\ Ops(call.log, {"get"}) /= {}

\* the Put recorded in call wrote to its key the non-zero value the key held
Rewrites ==
    /\ call /= NoCall
    /\ call.value /= 0
    /\ FeltToBitSet(call.key) \in DOMAIN call.entryStore
    /\ call.entryStore[FeltToBitSet(call.key)].value = Felt(call.value)

\* C8: a Put of the non-zero value that the key holds leaves the store,
\* rootKey and Root() as they were
IdempotentOverwrite ==
    Rewrites => /\ call.err = NoErr
                /\ store = call.entryStore
                /\ rootKey = call.entryRootKey
                /\ Root(store, rootKey) = Root(call.entryStore, call.entryRootKey)

\* C8 witness: such a Put, on a leaf two nodes below the root, wrote the
\* leaf and its ancestors again
IdempotentOverwriteWitness ==
    /\ Rewrites
    /\ Cardinality(Ops(call.log, {"put"})) >= 3
    /\ store = call.entryStore

\* C9: when one key k holds a non-zero value v, rootKey is the path of
\* Height bits of k, the root node is the leaf of value v and Root() is
\* the hash of that leaf with the whole path of k
SingleLeafRoot ==
    \A k \in FeltKeys :
        Live(written) = {k} =>
            /\ rootKey = FeltToBitSet(k)
            /\ rootKey.len = Height
            /\ rootKey \in DOMAIN store
            /\ store[rootKey] = Node(Felt(written[k]), NilKey, NilKey)
            /\ Root(store, rootKey) =
                  [value |-> Hash(Node(Felt(written[k]), NilKey, NilKey),
                                  BitSet(Height, k)),
                   err |-> NoErr]

\* C9 witness: a delete left one leaf, which became the root
SingleLeafRootWitness ==
    /\ Deleted
    /\ call.entryRootKey.len < Height
    /\ Cardinality(Live(written)) = 1
    /\ rootKey.len = Height
    /\ rootKey \in DOMAIN store

\* C10: a Put in which a storage call fails returns that error, a Put that
\* returns an error leaves rootKey as it was, and a Put assigns rootKey after
\* its last storage call
AllOrNothingRootKey ==
    call /= NoCall =>
        /\ call.failAt > 0 => call.err = ErrStoreIO
        /\ call.err /= NoErr => rootKey = call.entryRootKey
        /\ \A i \in Ops(call.log, {"rootKey"}) : i = Len(call.log) /\ call.err = NoErr

\* C10 witness: a Put that was to make a new root failed after it had
\* written to the store
AllOrNothingRootKeyWitness ==
    /\ call /= NoCall
    /\ call.err = ErrStoreIO
    /\ store /= call.entryStore
    /\ rootKey = call.entryRootKey
    /\ Put(Context(call.entryStore, call.entryRootKey), call.key, Felt(call.value), 0).rootKey
          /= call.entryRootKey

\* C11 as stated: in a Put, every get comes before every put and delete
ReadsBeforeWrites ==
    \A i \in Ops(call.log, {"get"}), j \in Ops(call.log, {"put", "delete"}) : i < j

\* C11, amended: the gets of the descent of a Put, one for each node of the
\* descent, come before every put and delete of the Put; a later get is that
\* of a node the Put then writes (the sibling in a collapse) or of a child of
\* a node the Put then writes (the propagation)
DescentReadsBeforeWrites ==
    call /= NoCall =>
       \E nodes \in {EntryDescent}, puts \in {Ops(call.log, {"put"})} :
           /\ Len(nodes) <= Len(call.log)
           /\ \A i \in 1 .. Len(nodes) : call.log[i] = Event("get", nodes[i].key)
           /\ \A j \in Ops(call.log, {"put", "delete"}) : j > Len(nodes)
           /\ \A i \in Ops(call.log, {"get"}) :
                 i > Len(nodes) =>
                     \E j \in puts :
                         /\ j > i
                         /\ \/ call.log[j].key = call.log[i].key
                            \/ call.log[i].key \in Children(store, call.log[j].key)

\* C11 witness: a collapse below a grandparent: after the descent, two
\* deletes, the get of the sibling and the gets of the propagation
DescentReadsBeforeWritesWitness ==
    /\ Deleted
    /\ Len(EntryDescent) >= 3
    /\ \E i \in Ops(call.log, {"get"}), j \in Ops(call.log, {"delete"}) : j < i
    /\ \E i \in Ops(call.log, {"get"}), j \in Ops(call.log, {"put"}) : j < i

ChildWellFormed ==
    \A k \in Reachable(store, rootKey) :
        /\ k \in DOMAIN store
        /\ k.len >= 0 /\ k.len <= Height
        /\ IF store[k].left /= NilKey \/ store[k].right /= NilKey
           THEN /\ store[k].left \in DOMAIN store
                /\ store[k].right \in DOMAIN store
                /\ ProperPrefix(k, store[k].left)
                /\ ProperPrefix(k, store[k].right)
                /\ BitAt(store[k].left, k.len) = 0
                /\ BitAt(store[k].right, k.len) = 1
           ELSE k.len = Height

\* C13 witness: four leaves; an internal node below the root has an
\* internal node for a child, and a child of the root is more than one bit
\* longer than the root
ChildWellFormedWitness ==
    /\ Cardinality(Live(written)) = 4
    /\ rootKey \in DOMAIN store
    /\ \E c \in Children(store, rootKey) : c.len > rootKey.len + 1
    /\ \E c \in Children(store, rootKey) :
          /\ c \in DOMAIN store
          /\ \E g \in Children(store, c) :
                g \in DOMAIN store /\ Children(store, g) /= {}

\* C14: after a successful Put, every internal node reached from rootKey,
\* on the spine of the Put or off it, has for value the hash of the hashes
\* of its two children as the store has them
CommitmentConsistent ==
    \A k \in Reachable(store, rootKey) :
        (k \in DOMAIN store /\ Children(store, k) /= {}) =>
            /\ Children(store, k) \subseteq DOMAIN store
            /\ store[k].value = Commitment(store, k)

\* C14 witness: a Put wrote the spine of its key, and an internal node that
\* it did not write is reached from rootKey
CommitmentConsistentWitness ==
    /\ call /= NoCall
    /\ call.err = NoErr
    /\ Cardinality(Ops(call.log, {"put"})) >= 2
    /\ \E k \in Reachable(store, rootKey) \ Touched :
          /\ Children(store, k) /= {}
          /\ store[k].value = Commitment(store, k)
    /\ \E k \in Reachable(store, rootKey) \cap Touched :
          /\ Children(store, k) /= {}
          /\ store[k].value = Commitment(store, k)

\* C15: the insert of a new key nk in a trie that is not empty makes an
\* internal node at cp, the longest common prefix of nk and the key of the
\* last node of the descent; its children are nk and that key, left the one
\* with bit 0 at position len(cp); after a descent of one node rootKey is
\* cp; after a longer one rootKey is as it was and the link of the node
\* before the last that led to the last key leads to cp, its other link
\* being as it was
InsertSplit ==
    Inserted =>
      \E nodes \in {EntryDescent} :
        LET len == Len(nodes)
            last == nodes[len].key
            nk == FeltToBitSet(call.key)
        IN \E cp \in {LongestCommonPrefix(nk, last)} :
            /\ cp \in DOMAIN store
            /\ cp \notin DOMAIN call.entryStore
            /\ {store[cp].left, store[cp].right} = {nk, last}
            /\ nk /= last
            /\ BitAt(store[cp].left, cp.len) = 0
            /\ BitAt(store[cp].right, cp.len) = 1
            /\ nk \in DOMAIN store
            /\ store[nk] = Node(Felt(call.value), NilKey, NilKey)
            /\ IF len = 1 THEN rootKey = cp
               ELSE LET gp == nodes[len - 1]
                    IN  /\ rootKey = call.entryRootKey
                        /\ last \in {gp.node.left, gp.node.right}
                        /\ gp.node.left = last =>
                              /\ store[gp.key].left = cp
                              /\ store[gp.key].right = gp.node.right
                        /\ gp.node.right = last =>
                              /\ store[gp.key].right = cp
                              /\ store[gp.key].left = gp.node.left

\* C15 witness: an insert below the root, after a descent of two nodes
InsertSplitWitness ==
    /\ Inserted
    /\ Len(EntryDescent) >= 2
    /\ rootKey = call.entryRootKey
    /\ LongestCommonPrefix(FeltToBitSet(call.key), EntryDescent[Len(EntryDescent)].key)
          \in DOMAIN store

\* C15 witness of the other case: an insert above an internal node that was
\* the root, the new node being the root
InsertSplitRootWitness ==
    /\ Inserted
    /\ Len(EntryDescent) = 1
    /\ Children(call.entryStore, call.entryRootKey) /= {}
    /\ rootKey /= call.entryRootKey

\* C16: a Put of zero to the key of a leaf that has a parent removes the
\* keys of the leaf and of the parent from the store; the sibling of the
\* leaf, left as it was, takes the place of the parent: after a descent of
\* two nodes it is rootKey and the Put made no put; after a longer one
\* rootKey is as it was, the link of the grandparent that led to the parent
\* leads to the sibling, and the sibling and the nodes above it were put,
\* each internal one with the hash of its children
DeleteCollapse ==
    Deleted =>
      \E nodes \in {EntryDescent} :
        Len(nodes) >= 2 =>
        LET len == Len(nodes)
            leaf == nodes[len].key
            parent == nodes[len - 1]
            sibling == CHOOSE k \in {parent.node.left, parent.node.right} : k /= leaf
        IN  /\ leaf = FeltToBitSet(call.key)
            /\ leaf \in {parent.node.left, parent.node.right}
            /\ leaf \notin DOMAIN store
            /\ parent.key \notin DOMAIN store
            /\ sibling \in DOMAIN store
            /\ store[sibling] = call.entryStore[sibling]
            /\ IF len = 2
               THEN /\ rootKey = sibling
                    /\ Ops(call.log, {"put"}) = {}
               ELSE LET gp == nodes[len - 2]
                    IN  /\ rootKey = call.entryRootKey
                        /\ gp.node.left = parent.key =>
                              /\ store[gp.key].left = sibling
                              /\ store[gp.key].right = gp.node.right
                        /\ gp.node.right = parent.key =>
                              /\ store[gp.key].right = sibling
                              /\ store[gp.key].left = gp.node.left
                        /\ {call.log[i].key : i \in Ops(call.log, {"put"})}
                              = {sibling} \cup {nodes[i].key : i \in 1 .. (len - 2)}
                        /\ \A i \in 1 .. (len - 2) :
                              store[nodes[i].key].value = Commitment(store, nodes[i].key)

\* C16 witness: a collapse below a grandparent, which now leads to the
\* sibling
DeleteCollapseWitness ==
    /\ Deleted
    /\ Len(EntryDescent) >= 3
    /\ rootKey = call.entryRootKey
    /\ EntryDescent[Len(EntryDescent) - 1].key \notin DOMAIN store
    /\ Children(store, EntryDescent[Len(EntryDescent) - 2].key)
          /= Children(call.entryStore, EntryDescent[Len(EntryDescent) - 2].key)

\* C17 as stated: a Put whose descent met NotFound does not return NotFound
DescentNotFoundEndsWalk ==
    (call /= NoCall /\ call.entryRootKey /= NilKey /\ DescentMisses /= {})
        => call.err /= ErrNotFound

\* C17, amended: a Put whose descent met NotFound returns NotFound; the get
\* that met it is its last storage call, and the store and rootKey are as
\* they were
DescentNotFoundFails ==
    (call /= NoCall /\ call.entryRootKey /= NilKey /\ DescentMisses /= {}) =>
        /\ call.err = ErrNotFound
        /\ DescentMisses = {Len(call.log)}
        /\ store = call.entryStore
        /\ rootKey = call.entryRootKey

\* C17 witness: the descent of a Put read the root and then met NotFound
\* for the child it went on to
DescentNotFoundFailsWitness ==
    /\ call /= NoCall
    /\ call.entryRootKey /= NilKey
    /\ call.failAt = 0
    /\ DescentMisses /= {}
    /\ Len(call.log) >= 2
    /\ call.err = ErrNotFound

\* C18: a successful Put changes the store at keys of its descent, at the
\* key of a new leaf and of its new parent only; every other key is in the
\* store after the Put if it was before, with the same node; the sibling
\* that a collapse puts is put as it was
OffSpineFrame ==
    (call /= NoCall /\ call.err = NoErr) =>
        \E nodes \in {EntryDescent}, spine \in {Spine} :
            /\ \A k \in (DOMAIN store \cup DOMAIN call.entryStore) \ spine :
                  /\ k \in DOMAIN store
                  /\ k \in DOMAIN call.entryStore
                  /\ store[k] = call.entryStore[k]
            /\ \A k \in Touched \ spine : call.value = 0
            /\ (Deleted /\ Len(nodes) >= 2) =>
                  \A k \in {nodes[Len(nodes) - 1].node.left,
                             nodes[Len(nodes) - 1].node.right} \ {FeltToBitSet(call.key)} :
                      k \in DOMAIN store /\ store[k] = call.entryStore[k]

\* C18 witness: a collapse below a grandparent put the sibling, and a node
\* off the spine is in the store
OffSpineFrameWitness ==
    /\ Deleted
    /\ Len(EntryDescent) >= 3
    /\ Touched \ Spine /= {}
    /\ DOMAIN store \ (Spine \cup Touched) /= {}

\* C18 witness of the insert: the new parent is above an internal node, whose
\* two children are off the spine
OffSpineFrameInsertWitness ==
    /\ Inserted
    /\ \E k \in Spine \cap DOMAIN call.entryStore :
          /\ Children(call.entryStore, k) /= {}
          /\ Children(call.entryStore, k) \cap Spine = {}
          /\ Children(store, k) = Children(call.entryStore, k)

\* the path p is the path k or a prefix of it
Prefix(p, k) == p.len <= k.len /\ k.val \div Pow2(k.len - p.len) = p.val

\* C19: FindCommonKey(longer, shorter), shorter being no longer than longer,
\* returns the longest common prefix of the two and whether shorter is a
\* prefix of longer; for two equal keys it returns shorter and true
FindCommonKeyCorrect ==
    pure.op = "FindCommonKey" =>
        /\ pure.result.key = LongestCommonPrefix(pure.key, pure.other)
        /\ pure.result.subset = Prefix(pure.other, pure.key)
        /\ pure.key = pure.other =>
              pure.result = [key |-> pure.other, subset |-> TRUE]

\* C19 witness: two keys of MaxKeyLen and three bits that agree on one
\* bit or two, not on three
FindCommonKeyCorrectWitness ==
    /\ pure.op = "FindCommonKey"
    /\ pure.key.len > pure.other.len
    /\ pure.other.len = 3
    /\ pure.result.key.len \in {1, 2}
    /\ ~pure.result.subset

\* C19 witness of the flag: a key of no bit is a prefix of a key
FindCommonKeyEmptyWitness ==
    /\ pure.op = "FindCommonKey"
    /\ pure.key.len > 0
    /\ pure.other.len = 0
    /\ pure.result = [key |-> BitSet(0, 0), subset |-> TRUE]

PathCorrectEmptyWitness ==
    /\ pure.op = "Path"
    /\ pure.other = BitSet(0, 0)
    /\ pure.key.len = 1
    /\ pure.result.key = BitSet(0, 0)

\* Path was called with the key 0b1011 of four bits and the parent key 0b10
\* of two bits
PathExample ==
    /\ pure.op = "Path"
    /\ pure.key = BitSet(4, 11)
    /\ pure.other = BitSet(2, 2)

NoOrphans ==
    /\ DOMAIN store = Reachable(store, rootKey)
    /\ rootKey = NilKey => store = EmptyStore

\* C22 witness: a collapse below a grandparent took two keys out of the
\* store, and the three keys left are those reached from rootKey
NoOrphansWitness ==
    /\ Deleted
    /\ Len(EntryDescent) >= 3
    /\ Cardinality(DOMAIN call.entryStore) = 5
    /\ Cardinality(DOMAIN store) = 3
    /\ DOMAIN store = Reachable(store, rootKey)

\* C22 witness of the empty trie: the delete of the last leaf left an empty
\* store
NoOrphansEmptyWitness ==
    /\ Deleted
    /\ rootKey = NilKey
    /\ call.entryStore /= EmptyStore
    /\ store = EmptyStore

\* the Put recorded in call returned nil after it had put a non-zero value
\* to a key that had no leaf
InsertedNew ==
    /\ call /= NoCall
    /\ call.err = NoErr
    /\ call.value /= 0
    /\ FeltToBitSet(call.key) \notin DOMAIN call.entryStore

\* the paths of fewer than Height bits
Prefixes == {b \in [len : 0 .. (Height - 1), val : 0 .. (Pow2(Height) - 1)] :
                b.val < Pow2(b.len)}

\* the keys of the nodes of the trie of the pairs of w: the paths of the
\* keys that hold a value, and the prefixes below which keys hold a value on
\* either side
CanonKeys(w) ==
    {FeltToBitSet(k) : k \in Live(w)}
      \cup {p \in Prefixes : /\ Under(BitSet(p.len + 1, 2 * p.val), w) /= {}
                             /\ Under(BitSet(p.len + 1, 2 * p.val + 1), w) /= {}}

\* rk is the root key of that trie: the shortest of the keys, or nil
CanonRoot(keys, rk) ==
    IF keys = {} THEN rk = NilKey
    ELSE rk \in keys /\ \A q \in keys : rk.len <= q.len

\* c is the child of the key p on the side bit: a key that extends p with
\* that bit, no other key being between the two
CanonChild(keys, p, bit, c) ==
    /\ c \in keys
    /\ ProperPrefix(p, c)
    /\ BitAt(c, p.len) = bit
    /\ \A d \in keys : ~(ProperPrefix(p, d) /\ ProperPrefix(d, c))

\* the node st has at the key p is the node of that trie: a leaf with the
\* value of the key, or an internal node with its two children and the hash
\* of the hashes of the nodes st has for them
CanonNode(st, w, keys, p) ==
    IF p.len = Height THEN st[p] = Node(Felt(w[p.val]), NilKey, NilKey)
    ELSE /\ CanonChild(keys, p, 0, st[p].left)
         /\ CanonChild(keys, p, 1, st[p].right)
         /\ st[p].value = Commitment(st, p)

\* C23: after a successful Put that follows successful Puts in whatever
\* order, overwrites and deletes among them, rootKey and the store are a
\* function of the map from the keys to their non-zero values: the keys of
\* the store are the paths of the keys that hold a value and the prefixes
\* below which keys hold a value on either side, rootKey is the shortest,
\* the children of a node are the nearest keys that extend it on each side
\* and its value is the hash of their hashes; and after the Put of a
\* non-zero value to a key that had no leaf, a Put of zero to the key gives
\* back the store, rootKey and Root() as they were before
HistoryIndependent ==
    (call /= NoCall /\ call.err = NoErr) =>
        /\ \E keys \in {CanonKeys(written)} :
              /\ DOMAIN store = keys
              /\ CanonRoot(keys, rootKey)
              /\ \A p \in keys : CanonNode(store, written, keys, p)
        /\ InsertedNew =>
              \E c \in {Put(Context(store, rootKey), call.key, Zero, 0)} :
                  /\ c.err = NoErr
                  /\ c.rootKey = call.entryRootKey
                  /\ c.store = call.entryStore
                  /\ Root(c.store, c.rootKey) = Root(call.entryStore, call.entryRootKey)

\* C23 witness: a delete has just collapsed a trie of three leaves, whose
\* root was not at the top, to the trie of the two leaves left
HistoryIndependentWitness ==
    /\ Deleted
    /\ Len(EntryDescent) >= 3
    /\ Cardinality(Live(written)) = 2
    /\ DOMAIN store = CanonKeys(written)
    /\ store /= call.entryStore

\* C23 witness of the second part: an insert below the root, which a Put
\* of zero undoes
HistoryIndependentUndoWitness ==
    /\ InsertedNew
    /\ Len(EntryDescent) >= 2
    /\ store /= call.entryStore
    /\ Put(Context(store, rootKey), call.key, Zero, 0).store = call.entryStore

====
